---- MODULE Spec2Model ----
(***************************************************************************)
(* State-machine model of the spl_escrow program                           *)
(* (programs/spl-escrow/src/lib.rs).                                       *)
(*                                                                         *)
(* Public keys are tuples of strings.  A program-derived address is the    *)
(* concatenation of its seeds, which keeps the derivation injective.       *)
(* The ledger is three maps: Escrow accounts by address, token accounts    *)
(* by address (the vaults included) and lamports per wallet.               *)
(*                                                                         *)
(* Every instruction is one atomic step.  Its accounts are validated in    *)
(* the order Anchor validates them (`init` accounts are created while the  *)
(* accounts are loaded, then the constraints in field order), then the     *)
(* handler runs, then `close` accounts are released.  The wallet in a      *)
(* Signer slot is the wallet that signed; token and mint slots are filled  *)
(* with existing token accounts and mints.                                 *)
(*                                                                         *)
(* `last` records the instruction that produced the current state: its     *)
(* name and error, and for a successful one the accounts and amounts.      *)
(***************************************************************************)
EXTENDS Integers, Sequences, FiniteSets, TLC

VARIABLES escrows, tokens, lamports, last

vars == <<escrows, tokens, lamports, last>>

(* ---------------------------- bounds ----------------------------------- *)

MaxAmount == 2

InitBal == 1

InitLamports == 2

BuyerLamports == 0

MaxTransfer == 1

(* ------------------------- program constants --------------------------- *)

RentEscrow == 1

RentVault == 1

EscrowBump == 255

VaultBump == 254

(* ----------------------------- universe -------------------------------- *)

Keys == {<<"alice">>, <<"bob">>}

Mints == {<<"X">>, <<"Y">>}

NoKey == <<>>

Amounts == 0..MaxAmount

TokAddr(owner, mint, n) == <<"tok">> \o owner \o mint \o <<n>>

UserTokens == {TokAddr(k, m, "1") : k \in Keys, m \in Mints}

(* Initially alice holds the X supply and bob the Y supply, one unit more. *)
InitAmount(a) ==
    IF a = TokAddr(<<"alice">>, <<"X">>, "1") THEN InitBal
    ELSE IF a = TokAddr(<<"bob">>, <<"Y">>, "1") THEN InitBal + 1
    ELSE 0

UserMint(a) == <<a[3]>>

UserOwner(a) == <<a[2]>>

(* seeds = [b"escrow", seller, offer_mint, request_mint] *)
EscrowPda(seller, offer_mint, request_mint) ==
    <<"escrow">> \o seller \o offer_mint \o request_mint

(* seeds = [b"vault", escrow.key()] *)
VaultPda(escrow) == <<"vault">> \o escrow

EscrowAddrs == {EscrowPda(s, om, rm) : s \in Keys, om \in Mints, rm \in Mints}

(* ------------------------------ helpers -------------------------------- *)

Put(f, k, v) == [x \in (DOMAIN f) \cup {k} |-> IF x = k THEN v ELSE f[x]]

Del(f, k) == [x \in (DOMAIN f) \ {k} |-> f[x]]

Ledger == [escrows |-> escrows, tokens |-> tokens, lamports |-> lamports]

R(err, st) == [err |-> err, st |-> st]

(* ----------------------- token program (CPI) --------------------------- *)

(* anchor_spl::token::transfer.  `injected` makes the call fail for a      *)
(* reason outside the model (e.g. a frozen account).                       *)
Transfer(st, from, to, authority, signers, amount, injected) ==
    IF from \notin DOMAIN st.tokens \/ to \notin DOMAIN st.tokens
    THEN R("InvalidAccountData", st)
    ELSE IF st.tokens[from].amount < amount
    THEN R("InsufficientBalance", st)
    ELSE IF st.tokens[from].mint # st.tokens[to].mint
    THEN R("MintMismatch", st)
    ELSE IF st.tokens[from].owner # authority
    THEN R("OwnerMismatch", st)
    ELSE IF authority \notin signers
    THEN R("MissingRequiredSignature", st)
    ELSE IF injected
    THEN R("CustodyFailure", st)
    ELSE IF from = to
    THEN R("Ok", st)
    ELSE R("Ok", [st EXCEPT !.tokens =
            [st.tokens EXCEPT ![from].amount = @ - amount,
                              ![to].amount = @ + amount]])

(* Mutant: a token account is closed whatever it still holds. *)
CloseAccount_force(st, account, destination, authority, signers, injected) ==
    IF account \notin DOMAIN st.tokens
    THEN R("InvalidAccountData", st)
    ELSE IF st.tokens[account].owner # authority
    THEN R("OwnerMismatch", st)
    ELSE IF authority \notin signers
    THEN R("MissingRequiredSignature", st)
    ELSE IF injected
    THEN R("CustodyFailure", st)
    ELSE R("Ok", [st EXCEPT !.tokens = Del(st.tokens, account),
                            !.lamports[destination] = @ + RentVault])

(* anchor_spl::token::close_account: the token account must be empty; its  *)
(* lamports go to `destination`.                                           *)
CloseAccount(st, account, destination, authority, signers, injected) ==
    IF account \notin DOMAIN st.tokens
    THEN R("InvalidAccountData", st)
    ELSE IF st.tokens[account].owner # authority
    THEN R("OwnerMismatch", st)
    ELSE IF authority \notin signers
    THEN R("MissingRequiredSignature", st)
    ELSE IF st.tokens[account].amount # 0
    THEN R("NonNativeHasBalance", st)
    ELSE IF injected
    THEN R("CustodyFailure", st)
    ELSE R("Ok", [st EXCEPT !.tokens = Del(st.tokens, account),
                            !.lamports[destination] = @ + RentVault])

(* ------------------------------ state ---------------------------------- *)

(* #[account] struct Escrow, freshly allocated by `init` (zeroed). *)
EmptyEscrow ==
    [seller |-> NoKey, offer_mint |-> NoKey, request_mint |-> NoKey,
     offer_amount |-> 0, request_amount |-> 0,
     escrow_bump |-> 0, vault_bump |-> 0]

NoLast ==
    [op |-> "none", err |-> "Ok", signer |-> NoKey, escrow |-> NoKey,
     from |-> NoKey, to |-> NoKey, recv |-> NoKey,
     offer_amount |-> 0, request_amount |-> 0]

Init ==
    /\ escrows = [e \in {} |-> EmptyEscrow]
    /\ tokens = [a \in UserTokens |->
                    [mint |-> UserMint(a), owner |-> UserOwner(a),
                     amount |-> InitAmount(a)]]
    /\ lamports = [k \in Keys |->
                    IF k = <<"alice">> THEN InitLamports ELSE BuyerLamports]
    /\ last = NoLast

(* Mutant: the writes made before the error are kept. *)
Execute_partial(pre, r) == r.st

(* The runtime commits the instruction's writes only when it returns Ok.   *)
Execute(pre, r) == IF r.err = "Ok" THEN r.st ELSE pre

Commit(pre, r, info) ==
    LET post == Execute(pre, r) IN
    /\ escrows' = post.escrows
    /\ tokens' = post.tokens
    /\ lamports' = post.lamports
    /\ last' = info

(* An ordinary token transfer signed by a wallet. *)
TokenTransfer ==
    \E signer \in Keys, from \in DOMAIN tokens, to \in DOMAIN tokens,
       amount \in 1..MaxTransfer :
        LET r == Transfer(Ledger, from, to, signer, {signer}, amount, FALSE) IN
        Commit(Ledger, r,
               [NoLast EXCEPT !.op = "transfer", !.err = r.err])

(* --------------------------- Escrow account ---------------------------- *)

(* Mutant: `init_if_needed`, an occupied address is not an error. *)
InitEscrow_if_needed(st, addr, payer, injected) ==
    IF st.lamports[payer] < RentEscrow \/ injected
    THEN R("InsufficientFunding", st)
    ELSE R("Ok", [st EXCEPT !.lamports[payer] = @ - RentEscrow,
                            !.escrows = Put(st.escrows, addr, EmptyEscrow)])

(* `init, payer = seller, seeds = [...]` on the escrow account. *)
InitEscrow(st, addr, payer, injected) ==
    IF addr \in DOMAIN st.escrows
    THEN R("AlreadyExists", st)
    ELSE IF st.lamports[payer] < RentEscrow \/ injected
    THEN R("InsufficientFunding", st)
    ELSE R("Ok", [st EXCEPT !.lamports[payer] = @ - RentEscrow,
                            !.escrows = Put(st.escrows, addr, EmptyEscrow)])

(* Mutant: `token::authority = seller`, the vault belongs to the payer. *)
InitVault_seller_authority(st, addr, payer, mint, authority, injected) ==
    IF addr \in DOMAIN st.tokens
    THEN R("AlreadyExists", st)
    ELSE IF st.lamports[payer] < RentVault \/ injected
    THEN R("InsufficientFunding", st)
    ELSE R("Ok", [st EXCEPT !.lamports[payer] = @ - RentVault,
                            !.tokens = Put(st.tokens, addr,
                                [mint |-> mint, owner |-> payer,
                                 amount |-> 0])])

(* `init, payer = seller, token::mint, token::authority` on the vault. *)
InitVault(st, addr, payer, mint, authority, injected) ==
    IF addr \in DOMAIN st.tokens
    THEN R("AlreadyExists", st)
    ELSE IF st.lamports[payer] < RentVault \/ injected
    THEN R("InsufficientFunding", st)
    ELSE R("Ok", [st EXCEPT !.lamports[payer] = @ - RentVault,
                            !.tokens = Put(st.tokens, addr,
                                [mint |-> mint, owner |-> authority,
                                 amount |-> 0])])

(* Mutant: `close = seller` is missing, the record survives the exit. *)
CloseEscrow_missing(st, addr, destination, injected) ==
    IF injected THEN R("CustodyFailure", st) ELSE R("Ok", st)

(* Mutant: the record is flagged as finished instead of being closed. *)
CloseEscrow_flagged(st, addr, destination, injected) ==
    IF injected
    THEN R("CustodyFailure", st)
    ELSE R("Ok", [st EXCEPT !.escrows[addr].offer_amount = 0,
                            !.escrows[addr].request_amount = 0])

(* Mutant: the lamports are paid out but the account is left in place. *)
CloseEscrow_drained(st, addr, destination, injected) ==
    IF injected
    THEN R("CustodyFailure", st)
    ELSE R("Ok", [st EXCEPT !.lamports[destination] = @ + RentEscrow])

(* `close = seller`: on exit the account is removed, lamports to seller. *)
CloseEscrow(st, addr, destination, injected) ==
    IF injected
    THEN R("CustodyFailure", st)
    ELSE R("Ok", [st EXCEPT !.escrows = Del(st.escrows, addr),
                            !.lamports[destination] = @ + RentEscrow])

(* `constraint = t.mint == mint @ InvalidMint,                             *)
(*  constraint = t.owner == owner @ InvalidTokenAccountOwner`              *)
TokenConstraint(st, t, mint, owner) ==
    IF st.tokens[t].mint # mint THEN "InvalidMint"
    ELSE IF st.tokens[t].owner # owner THEN "InvalidTokenAccountOwner"
    ELSE "Ok"

(* `seeds = [b"escrow", escrow.seller, escrow.offer_mint,                  *)
(*           escrow.request_mint], bump = escrow.escrow_bump`              *)
EscrowSeedsConstraint(st, escrow) ==
    LET esc == st.escrows[escrow] IN
    IF escrow # EscrowPda(esc.seller, esc.offer_mint, esc.request_mint)
          \/ esc.escrow_bump # EscrowBump
    THEN "ConstraintSeeds" ELSE "Ok"

(* `seeds = [b"vault", escrow.key()], bump = escrow.vault_bump` *)
VaultSeedsConstraint(st, escrow, vault) ==
    IF vault # VaultPda(escrow) \/ st.escrows[escrow].vault_bump # VaultBump
    THEN "ConstraintSeeds" ELSE "Ok"

(* Signer seeds built by the handlers from the stored record. *)
SignerSeeds(esc) == EscrowPda(esc.seller, esc.offer_mint, esc.request_mint)

(* ------------------------------ create --------------------------------- *)

(* #[derive(Accounts)] CreateEscrow: the two `init` accounts are created   *)
(* while the accounts are loaded, the constraints are checked afterwards.  *)
CreateEscrowAccounts(st, seller, offer_mint, request_mint, seller_offer_token, inject) ==
    LET escrow == EscrowPda(seller, offer_mint, request_mint)
        vault == VaultPda(escrow)
        i1 == InitEscrow(st, escrow, seller, inject = "allocate")
        i2 == IF i1.err = "Ok"
              THEN InitVault(i1.st, vault, seller, offer_mint, escrow,
                             inject = "allocate_vault")
              ELSE i1
    IN  IF i2.err = "Ok"
        THEN R(TokenConstraint(i2.st, seller_offer_token, offer_mint, seller),
               i2.st)
        ELSE i2

(* Mutant: request_amount is locked in the vault instead of offer_amount. *)
create_escrow_wrong_amount(st, seller, offer_mint, request_mint, seller_offer_token, offer_amount, request_amount, inject) ==
    LET escrow == EscrowPda(seller, offer_mint, request_mint)
        vault == VaultPda(escrow)
    IN
    IF ~(offer_amount > 0) THEN R("InvalidAmount", st)
    ELSE IF ~(request_amount > 0) THEN R("InvalidAmount", st)
    ELSE LET s1 == [st EXCEPT !.escrows[escrow] =
                        [seller |-> seller,
                         offer_mint |-> offer_mint,
                         request_mint |-> request_mint,
                         offer_amount |-> offer_amount,
                         request_amount |-> request_amount,
                         escrow_bump |-> EscrowBump,
                         vault_bump |-> VaultBump]]
         IN Transfer(s1, seller_offer_token, vault, seller, {seller},
                     request_amount, inject = "transfer1")

(* Mutant: only offer_amount is required to be positive. *)
create_escrow_one_require(st, seller, offer_mint, request_mint, seller_offer_token, offer_amount, request_amount, inject) ==
    LET escrow == EscrowPda(seller, offer_mint, request_mint)
        vault == VaultPda(escrow)
    IN
    IF ~(offer_amount > 0) THEN R("InvalidAmount", st)
    ELSE LET s1 == [st EXCEPT !.escrows[escrow] =
                        [seller |-> seller,
                         offer_mint |-> offer_mint,
                         request_mint |-> request_mint,
                         offer_amount |-> offer_amount,
                         request_amount |-> request_amount,
                         escrow_bump |-> EscrowBump,
                         vault_bump |-> VaultBump]]
         IN Transfer(s1, seller_offer_token, vault, seller, {seller},
                     offer_amount, inject = "transfer1")

(* The handler: both require!, the record's fields, then the transfer of   *)
(* offer_amount from the seller's holding to the vault.                    *)
create_escrow(st, seller, offer_mint, request_mint, seller_offer_token, offer_amount, request_amount, inject) ==
    LET escrow == EscrowPda(seller, offer_mint, request_mint)
        vault == VaultPda(escrow)
    IN
    IF ~(offer_amount > 0) THEN R("InvalidAmount", st)
    ELSE IF ~(request_amount > 0) THEN R("InvalidAmount", st)
    ELSE LET s1 == [st EXCEPT !.escrows[escrow] =
                        [seller |-> seller,
                         offer_mint |-> offer_mint,
                         request_mint |-> request_mint,
                         offer_amount |-> offer_amount,
                         request_amount |-> request_amount,
                         escrow_bump |-> EscrowBump,
                         vault_bump |-> VaultBump]]
         IN Transfer(s1, seller_offer_token, vault, seller, {seller},
                     offer_amount, inject = "transfer1")

CreateInject == {"none", "allocate", "allocate_vault", "transfer1"}

(* What `last` keeps of a failed instruction: its name and its error. *)
Fail(op, err) ==
    Commit(Ledger, R(err, Ledger), [NoLast EXCEPT !.op = op, !.err = err])

(* The whole instruction: account validation, then the handler. *)
CreateEscrowIx(st, seller, offer_mint, request_mint, seller_offer_token, offer_amount, request_amount, inject) ==
    LET v == CreateEscrowAccounts(st, seller, offer_mint, request_mint,
                                  seller_offer_token, inject)
    IN  IF v.err = "Ok"
        THEN create_escrow(v.st, seller, offer_mint, request_mint,
                           seller_offer_token, offer_amount, request_amount,
                           inject)
        ELSE v

(* Each input is drawn where the instruction first reads it. *)
CreateEscrowTx ==
    \E seller \in Keys, offer_mint \in Mints, request_mint \in Mints :
      LET st == Ledger
          escrow == EscrowPda(seller, offer_mint, request_mint)
          i0 == InitEscrow(st, escrow, seller, FALSE)
      IN
      IF i0.err # "Ok" THEN Fail("create", i0.err) ELSE
      \E inject \in CreateInject, seller_offer_token \in DOMAIN tokens :
      LET v == CreateEscrowAccounts(st, seller, offer_mint, request_mint,
                                    seller_offer_token, inject) IN
      IF v.err # "Ok" THEN Fail("create", v.err) ELSE
      \E offer_amount \in Amounts, request_amount \in Amounts :
      LET r == CreateEscrowIx(st, seller, offer_mint, request_mint,
                              seller_offer_token, offer_amount,
                              request_amount, inject)
      IN Commit(st, r,
             IF r.err # "Ok"
             THEN [NoLast EXCEPT !.op = "create", !.err = r.err]
             ELSE [NoLast EXCEPT
                     !.op = "create", !.err = r.err, !.signer = seller,
                     !.escrow = escrow, !.from = seller_offer_token,
                     !.offer_amount = offer_amount,
                     !.request_amount = request_amount])

(* ------------------------------ accept --------------------------------- *)

(* `address = escrow.seller @ Unauthorized` on AcceptEscrow::seller *)
AcceptEscrow_seller(st, escrow, seller) ==
    IF seller # st.escrows[escrow].seller THEN "Unauthorized" ELSE "Ok"

(* Mutant: the supplied offer mint is not compared with the record. *)
AcceptEscrow_offer_mint_unchecked(st, escrow, offer_mint) == "Ok"

(* `address = escrow.offer_mint @ InvalidMint` *)
AcceptEscrow_offer_mint(st, escrow, offer_mint) ==
    IF offer_mint # st.escrows[escrow].offer_mint THEN "InvalidMint" ELSE "Ok"

(* `address = escrow.request_mint @ InvalidMint` *)
AcceptEscrow_request_mint(st, escrow, request_mint) ==
    IF request_mint # st.escrows[escrow].request_mint
    THEN "InvalidMint" ELSE "Ok"

AcceptEscrow_buyer_request_token(st, t, request_mint, buyer) ==
    TokenConstraint(st, t, request_mint, buyer)

AcceptEscrow_buyer_offer_token(st, t, offer_mint, buyer) ==
    TokenConstraint(st, t, offer_mint, buyer)

AcceptEscrow_seller_request_token(st, escrow, t, request_mint) ==
    TokenConstraint(st, t, request_mint, st.escrows[escrow].seller)

(* One entry of the list of cross-program calls a handler has made: the    *)
(* call, its accounts and amount, and its result.                          *)
TransferCall(from, to, amount, err) ==
    [call |-> "transfer", from |-> from, to |-> to, amount |-> amount,
     err |-> err]

CloseAccountCall(account, destination, err) ==
    [call |-> "close_account", from |-> account, to |-> destination,
     amount |-> 0, err |-> err]

(* Mutant: the buyer is charged offer_amount instead of request_amount. *)
accept_escrow_swapped(st, a, inject) ==
    LET escrow == st.escrows[a.escrow]
        offer_amount == escrow.offer_amount
        signer_seeds == {a.buyer, SignerSeeds(escrow)}
        t1 == Transfer(st, a.buyer_request_token, a.seller_request_token,
                       a.buyer, {a.buyer}, offer_amount,
                       inject = "transfer1")
        t2 == IF t1.err = "Ok"
            THEN Transfer(t1.st, a.vault, a.buyer_offer_token, a.escrow,
                         signer_seeds, offer_amount, inject = "transfer2")
            ELSE t1
        t3 == IF t2.err = "Ok"
            THEN CloseAccount(t2.st, a.vault, a.seller, a.escrow, signer_seeds,
                             inject = "close")
            ELSE t2
        t4 == IF t3.err = "Ok"
            THEN CloseEscrow(t3.st, a.escrow, a.seller, inject = "release")
            ELSE t3
    IN  [err |-> t4.err, st |-> t4.st, cpi |-> <<>>]

(* Mutant: the vault is released to the buyer before the buyer has paid. *)
accept_escrow_release_first(st, a, inject) ==
    LET escrow == st.escrows[a.escrow]
        offer_amount == escrow.offer_amount
        request_amount == escrow.request_amount
        signer_seeds == {a.buyer, SignerSeeds(escrow)}
        t1 == Transfer(st, a.vault, a.buyer_offer_token, a.escrow,
                       signer_seeds, offer_amount, inject = "transfer2")
        t2 == IF t1.err = "Ok"
            THEN Transfer(t1.st, a.buyer_request_token,
                         a.seller_request_token, a.buyer, {a.buyer},
                         request_amount, inject = "transfer1")
            ELSE t1
        t3 == IF t2.err = "Ok"
            THEN CloseAccount(t2.st, a.vault, a.seller, a.escrow, signer_seeds,
                             inject = "close")
            ELSE t2
        t4 == IF t3.err = "Ok"
            THEN CloseEscrow(t3.st, a.escrow, a.seller, inject = "release")
            ELSE t3
        c1 == <<TransferCall(a.vault, a.buyer_offer_token, offer_amount,
                             t1.err)>>
        c2 == IF t1.err = "Ok"
            THEN <<TransferCall(a.buyer_request_token,
                               a.seller_request_token, request_amount,
                               t2.err)>>
            ELSE <<>>
        c3 == IF t2.err = "Ok"
            THEN <<CloseAccountCall(a.vault, a.seller, t3.err)>>
            ELSE <<>>
    IN  [err |-> t4.err, st |-> t4.st, cpi |-> c1 \o c2 \o c3]

(* Mutant: the storage cost of the vault is paid out to the buyer. *)
accept_escrow_rent_to_buyer(st, a, inject) ==
    LET escrow == st.escrows[a.escrow]
        offer_amount == escrow.offer_amount
        request_amount == escrow.request_amount
        signer_seeds == {a.buyer, SignerSeeds(escrow)}
        t1 == Transfer(st, a.buyer_request_token, a.seller_request_token,
                       a.buyer, {a.buyer}, request_amount,
                       inject = "transfer1")
        t2 == IF t1.err = "Ok"
            THEN Transfer(t1.st, a.vault, a.buyer_offer_token, a.escrow,
                         signer_seeds, offer_amount, inject = "transfer2")
            ELSE t1
        t3 == IF t2.err = "Ok"
            THEN CloseAccount(t2.st, a.vault, a.buyer, a.escrow, signer_seeds,
                             inject = "close")
            ELSE t2
        t4 == IF t3.err = "Ok"
            THEN CloseEscrow(t3.st, a.escrow, a.seller, inject = "release")
            ELSE t3
    IN  [err |-> t4.err, st |-> t4.st, cpi |-> <<>>]

(* The handler followed by the `close = seller` exit of the escrow.  Each  *)
(* `?` returns the first error; `cpi` lists the calls made, in order, up   *)
(* to and including the first one that failed.                             *)
accept_escrow(st, a, inject) ==
    LET escrow == st.escrows[a.escrow]
        offer_amount == escrow.offer_amount
        request_amount == escrow.request_amount
        signer_seeds == {a.buyer, SignerSeeds(escrow)}
        t1 == Transfer(st, a.buyer_request_token, a.seller_request_token,
                       a.buyer, {a.buyer}, request_amount,
                       inject = "transfer1")
        t2 == IF t1.err = "Ok"
            THEN Transfer(t1.st, a.vault, a.buyer_offer_token, a.escrow,
                         signer_seeds, offer_amount, inject = "transfer2")
            ELSE t1
        t3 == IF t2.err = "Ok"
            THEN CloseAccount(t2.st, a.vault, a.seller, a.escrow, signer_seeds,
                             inject = "close")
            ELSE t2
        t4 == IF t3.err = "Ok"
            THEN CloseEscrow(t3.st, a.escrow, a.seller, inject = "release")
            ELSE t3
        c1 == <<TransferCall(a.buyer_request_token, a.seller_request_token,
                             request_amount, t1.err)>>
        c2 == IF t1.err = "Ok"
            THEN <<TransferCall(a.vault, a.buyer_offer_token, offer_amount,
                               t2.err)>>
            ELSE <<>>
        c3 == IF t2.err = "Ok"
            THEN <<CloseAccountCall(a.vault, a.seller, t3.err)>>
            ELSE <<>>
    IN  [err |-> t4.err, st |-> t4.st, cpi |-> c1 \o c2 \o c3]

AcceptInject == {"none", "transfer1", "transfer2", "close", "release"}

(* #[derive(Accounts)] AcceptEscrow: the constraints in field order. *)
AcceptEscrowAccounts(st, a) ==
    LET c1 == AcceptEscrow_seller(st, a.escrow, a.seller)
        c2 == AcceptEscrow_offer_mint(st, a.escrow, a.offer_mint)
        c3 == AcceptEscrow_request_mint(st, a.escrow, a.request_mint)
        c4 == EscrowSeedsConstraint(st, a.escrow)
        c5 == VaultSeedsConstraint(st, a.escrow, a.vault)
        c6 == AcceptEscrow_buyer_request_token(st, a.buyer_request_token,
                                               a.request_mint, a.buyer)
        c7 == AcceptEscrow_buyer_offer_token(st, a.buyer_offer_token,
                                             a.offer_mint, a.buyer)
        c8 == AcceptEscrow_seller_request_token(st, a.escrow,
                                   a.seller_request_token, a.request_mint)
    IN
    IF a.escrow \notin DOMAIN st.escrows THEN "AccountNotInitialized"
    ELSE IF c1 # "Ok" THEN c1
    ELSE IF c2 # "Ok" THEN c2
    ELSE IF c3 # "Ok" THEN c3
    ELSE IF c4 # "Ok" THEN c4
    ELSE IF c5 # "Ok" THEN c5
    ELSE IF c6 # "Ok" THEN c6
    ELSE IF c7 # "Ok" THEN c7
    ELSE c8

(* The whole instruction: account validation, then the handler. *)
AcceptEscrowIx(st, a, inject) ==
    LET v == R(AcceptEscrowAccounts(st, a), st)
    IN  IF v.err = "Ok" THEN accept_escrow(v.st, a, inject) ELSE v

(* Each input is drawn where the validation first reads it. *)
AcceptEscrowTx ==
    \E buyer \in Keys, escrow \in EscrowAddrs :
      LET F(err) == Fail("accept", err)
          st == Ledger
      IN
      IF escrow \notin DOMAIN escrows THEN F("AccountNotInitialized") ELSE
      \E seller \in Keys :
      LET c1 == AcceptEscrow_seller(st, escrow, seller) IN
      IF c1 # "Ok" THEN F(c1) ELSE
      \E offer_mint \in Mints :
      LET c2 == AcceptEscrow_offer_mint(st, escrow, offer_mint) IN
      IF c2 # "Ok" THEN F(c2) ELSE
      \E request_mint \in Mints :
      LET c3 == AcceptEscrow_request_mint(st, escrow, request_mint) IN
      IF c3 # "Ok" THEN F(c3) ELSE
      LET c4 == EscrowSeedsConstraint(st, escrow) IN
      IF c4 # "Ok" THEN F(c4) ELSE
      \E vault \in DOMAIN tokens :
      LET c5 == VaultSeedsConstraint(st, escrow, vault) IN
      IF c5 # "Ok" THEN F(c5) ELSE
      \E buyer_request_token \in DOMAIN tokens :
      LET c6 == AcceptEscrow_buyer_request_token(st, buyer_request_token,
                                                 request_mint, buyer) IN
      IF c6 # "Ok" THEN F(c6) ELSE
      \E buyer_offer_token \in DOMAIN tokens :
      LET c7 == AcceptEscrow_buyer_offer_token(st, buyer_offer_token,
                                               offer_mint, buyer) IN
      IF c7 # "Ok" THEN F(c7) ELSE
      \E seller_request_token \in DOMAIN tokens, inject \in AcceptInject :
      LET a == [buyer |-> buyer, seller |-> seller,
                offer_mint |-> offer_mint, request_mint |-> request_mint,
                escrow |-> escrow, vault |-> vault,
                buyer_request_token |-> buyer_request_token,
                buyer_offer_token |-> buyer_offer_token,
                seller_request_token |-> seller_request_token]
          r == AcceptEscrowIx(st, a, inject)
      IN Commit(st, r,
             IF r.err # "Ok"
             THEN [NoLast EXCEPT !.op = "accept", !.err = r.err]
             ELSE [NoLast EXCEPT
                     !.op = "accept", !.err = r.err, !.signer = buyer,
                     !.escrow = escrow, !.from = buyer_request_token,
                     !.to = seller_request_token,
                     !.recv = buyer_offer_token,
                     !.offer_amount = escrows[escrow].offer_amount,
                     !.request_amount = escrows[escrow].request_amount])

(* ------------------------------ cancel --------------------------------- *)

(* Mutant: the address constraint on the cancelling signer is missing. *)
CancelEscrow_seller_unchecked(st, escrow, seller) == "Ok"

(* `address = escrow.seller @ Unauthorized` on CancelEscrow::seller *)
CancelEscrow_seller(st, escrow, seller) ==
    IF seller # st.escrows[escrow].seller THEN "Unauthorized" ELSE "Ok"

(* `address = escrow.offer_mint @ InvalidMint` *)
CancelEscrow_offer_mint(st, escrow, offer_mint) ==
    IF offer_mint # st.escrows[escrow].offer_mint THEN "InvalidMint" ELSE "Ok"

CancelEscrow_seller_offer_token(st, t, offer_mint, seller) ==
    TokenConstraint(st, t, offer_mint, seller)

(* Mutant: the vault is emptied but never closed. *)
cancel_escrow_no_close(st, a, inject) ==
    LET escrow == st.escrows[a.escrow]
        offer_amount == escrow.offer_amount
        signer_seeds == {a.seller, SignerSeeds(escrow)}
        t1 == Transfer(st, a.vault, a.seller_offer_token, a.escrow,
                       signer_seeds, offer_amount, inject = "transfer1")
    IN  IF t1.err = "Ok"
            THEN CloseEscrow(t1.st, a.escrow, a.seller, inject = "release")
            ELSE t1

(* Mutant: the refund is request_amount instead of offer_amount. *)
cancel_escrow_refund_request(st, a, inject) ==
    LET escrow == st.escrows[a.escrow]
        request_amount == escrow.request_amount
        signer_seeds == {a.seller, SignerSeeds(escrow)}
        t1 == Transfer(st, a.vault, a.seller_offer_token, a.escrow,
                       signer_seeds, request_amount, inject = "transfer1")
        t2 == IF t1.err = "Ok"
            THEN CloseAccount(t1.st, a.vault, a.seller, a.escrow, signer_seeds,
                             inject = "close")
            ELSE t1
    IN  IF t2.err = "Ok"
            THEN CloseEscrow(t2.st, a.escrow, a.seller, inject = "release")
            ELSE t2

(* The handler followed by the `close = seller` exit of the escrow. *)
cancel_escrow(st, a, inject) ==
    LET escrow == st.escrows[a.escrow]
        offer_amount == escrow.offer_amount
        signer_seeds == {a.seller, SignerSeeds(escrow)}
        t1 == Transfer(st, a.vault, a.seller_offer_token, a.escrow,
                       signer_seeds, offer_amount, inject = "transfer1")
        t2 == IF t1.err = "Ok"
            THEN CloseAccount(t1.st, a.vault, a.seller, a.escrow, signer_seeds,
                             inject = "close")
            ELSE t1
    IN  IF t2.err = "Ok"
            THEN CloseEscrow(t2.st, a.escrow, a.seller, inject = "release")
            ELSE t2

CancelInject == {"none", "transfer1", "close", "release"}

(* #[derive(Accounts)] CancelEscrow: the constraints in field order. *)
CancelEscrowAccounts(st, a) ==
    LET c1 == CancelEscrow_seller(st, a.escrow, a.seller)
        c2 == CancelEscrow_offer_mint(st, a.escrow, a.offer_mint)
        c3 == EscrowSeedsConstraint(st, a.escrow)
        c4 == VaultSeedsConstraint(st, a.escrow, a.vault)
        c5 == CancelEscrow_seller_offer_token(st, a.seller_offer_token,
                                              a.offer_mint, a.seller)
    IN
    IF a.escrow \notin DOMAIN st.escrows THEN "AccountNotInitialized"
    ELSE IF c1 # "Ok" THEN c1
    ELSE IF c2 # "Ok" THEN c2
    ELSE IF c3 # "Ok" THEN c3
    ELSE IF c4 # "Ok" THEN c4
    ELSE c5

(* The whole instruction: account validation, then the handler. *)
CancelEscrowIx(st, a, inject) ==
    LET v == R(CancelEscrowAccounts(st, a), st)
    IN  IF v.err = "Ok" THEN cancel_escrow(v.st, a, inject) ELSE v

(* Each input is drawn where the validation first reads it. *)
CancelEscrowTx ==
    \E seller \in Keys, escrow \in EscrowAddrs :
      LET F(err) == Fail("cancel", err)
          st == Ledger
      IN
      IF escrow \notin DOMAIN escrows THEN F("AccountNotInitialized") ELSE
      LET c1 == CancelEscrow_seller(st, escrow, seller) IN
      IF c1 # "Ok" THEN F(c1) ELSE
      \E offer_mint \in Mints :
      LET c2 == CancelEscrow_offer_mint(st, escrow, offer_mint) IN
      IF c2 # "Ok" THEN F(c2) ELSE
      LET c3 == EscrowSeedsConstraint(st, escrow) IN
      IF c3 # "Ok" THEN F(c3) ELSE
      \E vault \in DOMAIN tokens :
      LET c4 == VaultSeedsConstraint(st, escrow, vault) IN
      IF c4 # "Ok" THEN F(c4) ELSE
      \E seller_offer_token \in DOMAIN tokens, inject \in CancelInject :
      LET a == [seller |-> seller, offer_mint |-> offer_mint,
                escrow |-> escrow, vault |-> vault,
                seller_offer_token |-> seller_offer_token]
          r == CancelEscrowIx(st, a, inject)
      IN Commit(st, r,
             IF r.err # "Ok"
             THEN [NoLast EXCEPT !.op = "cancel", !.err = r.err]
             ELSE [NoLast EXCEPT
                     !.op = "cancel", !.err = r.err, !.signer = seller,
                     !.escrow = escrow, !.to = seller_offer_token,
                     !.offer_amount = escrows[escrow].offer_amount,
                     !.request_amount = escrows[escrow].request_amount])

Next ==
    \/ CreateEscrowTx
    \/ AcceptEscrowTx
    \/ CancelEscrowTx
    \/ TokenTransfer

Spec == Init /\ [][Next]_vars

(* A second environment, in which two records of one seller coexist: the  *)
(* seller can pay the storage of two records and holds the offered kind,   *)
(* and the token transfers of the environment are those that touch a       *)
(* vault.                                                                  *)
Init2 ==
    /\ escrows = [e \in {} |-> EmptyEscrow]
    /\ tokens = [a \in UserTokens |->
                    [mint |-> UserMint(a), owner |-> UserOwner(a),
                     amount |-> IF a = TokAddr(<<"alice">>, <<"X">>, "1")
                                THEN InitBal + 1 ELSE 0]]
    /\ lamports = [k \in Keys |->
                    IF k = <<"alice">> THEN 2 * (RentEscrow + RentVault)
                    ELSE BuyerLamports]
    /\ last = NoLast

(* An ordinary token transfer, signed by a wallet, out of or into a vault. *)
VaultTransfer ==
    \E signer \in Keys, from \in DOMAIN tokens, to \in DOMAIN tokens,
       amount \in 1..MaxTransfer :
        /\ from \notin UserTokens \/ to \notin UserTokens
        /\ LET r == Transfer(Ledger, from, to, signer, {signer}, amount, FALSE)
           IN Commit(Ledger, r,
                     [NoLast EXCEPT !.op = "transfer", !.err = r.err])

Next2 ==
    \/ CreateEscrowTx
    \/ AcceptEscrowTx
    \/ CancelEscrowTx
    \/ VaultTransfer

Spec2 == Init2 /\ [][Next2]_vars

(* ======================= properties of the program ===================== *)

Ok(op) == last.op = op /\ last.err = "Ok"

Balance(tok, a) == IF a \in DOMAIN tok THEN tok[a].amount ELSE 0

LedgerUnchanged == UNCHANGED <<escrows, tokens, lamports>>

(* The accounts a well-formed accept of record e passes. *)
AcceptAccounts(e, buyer, brt, bot, srt) ==
    [buyer |-> buyer, seller |-> escrows[e].seller,
     offer_mint |-> escrows[e].offer_mint,
     request_mint |-> escrows[e].request_mint,
     escrow |-> e, vault |-> VaultPda(e),
     buyer_request_token |-> brt, buyer_offer_token |-> bot,
     seller_request_token |-> srt]

(* C1 as stated: after every successful accept the seller's receiving      *)
(* holding has grown by exactly request_amount and the buyer's receiving   *)
(* holding by exactly offer_amount, whoever the buyer is and whatever the  *)
(* two asset kinds are.                                                    *)
C1_Original ==
    [][(last'.op = "accept" /\ last'.err = "Ok") =>
          /\ tokens'[last'.to].amount
                = tokens[last'.to].amount + last'.request_amount
          /\ tokens'[last'.recv].amount
                = tokens[last'.recv].amount + last'.offer_amount]_vars

(* C1 amended: after every successful accept in which the buyer's paying   *)
(* holding, the buyer's receiving holding and the seller's receiving       *)
(* holding are three different holdings, the seller's receiving holding    *)
(* has grown by exactly request_amount and the buyer's receiving holding   *)
(* by exactly offer_amount, for all pre-existing balances.                 *)
C1_ExchangeExact ==
    [][(/\ last'.op = "accept" /\ last'.err = "Ok"
        /\ last'.from # last'.to
        /\ last'.from # last'.recv
        /\ last'.to # last'.recv) =>
          /\ tokens'[last'.to].amount
                = tokens[last'.to].amount + last'.request_amount
          /\ tokens'[last'.recv].amount
                = tokens[last'.recv].amount + last'.offer_amount]_vars

C1_Witness ==
    /\ Ok("accept")
    /\ last.from # last.to /\ last.from # last.recv /\ last.to # last.recv
    /\ last.offer_amount # last.request_amount

(* C2 (I1): whenever an Escrow record exists, the balance of its vault     *)
(* equals the record's offer_amount.                                       *)
C2_VaultEqualsOffer ==
    \A e \in DOMAIN escrows :
        Balance(tokens, VaultPda(e)) = escrows[e].offer_amount

(* C3 (P1): right after a successful create the vault holds the            *)
(* offer_amount passed to create; right after a successful accept or       *)
(* cancel the vault balance is 0 and the record no longer exists.          *)
C3_CustodyConservation ==
    /\ Ok("create") =>
          /\ last.escrow \in DOMAIN escrows
          /\ VaultPda(last.escrow) \in DOMAIN tokens
          /\ tokens[VaultPda(last.escrow)].amount = last.offer_amount
    /\ (Ok("accept") \/ Ok("cancel")) =>
          /\ Balance(tokens, VaultPda(last.escrow)) = 0
          /\ last.escrow \notin DOMAIN escrows

C3_Witness == Ok("accept") /\ last.offer_amount > last.request_amount

(* C4 (P3, I4): a cancel of an existing record by a signer other than the  *)
(* stored seller fails with Unauthorized and changes nothing, whatever     *)
(* other accounts it passes; and a cancel removes a record only when its   *)
(* signer is the record's stored seller.                                   *)
C4_CancelAuthorization ==
    /\ [](\A e \in DOMAIN escrows :
          \A caller \in Keys \ {escrows[e].seller} :
          \A om \in Mints, vault \in DOMAIN tokens, sot \in DOMAIN tokens :
            LET a == [seller |-> caller, offer_mint |-> om, escrow |-> e,
                      vault |-> vault, seller_offer_token |-> sot]
                r == CancelEscrowIx(Ledger, a, "none")
            IN r.err = "Unauthorized" /\ Execute(Ledger, r) = Ledger)
    /\ [][\A e \in DOMAIN escrows :
            (last'.op = "cancel" /\ e \notin DOMAIN escrows')
                => last'.signer = escrows[e].seller]_vars

C4_Witness ==
    /\ last.op = "cancel" /\ last.err = "Unauthorized"
    /\ DOMAIN escrows # {}

(* C5 (P5): at most one record exists per (seller, offer_mint,             *)
(* request_mint) triple, and a create for a triple that has a record fails *)
(* with AlreadyExists whatever holding and amounts it passes, leaving the  *)
(* ledger unchanged.                                                       *)
C5_Uniqueness ==
    /\ \A e1 \in DOMAIN escrows, e2 \in DOMAIN escrows :
          (/\ escrows[e1].seller = escrows[e2].seller
           /\ escrows[e1].offer_mint = escrows[e2].offer_mint
           /\ escrows[e1].request_mint = escrows[e2].request_mint)
             => e1 = e2
    /\ \A e \in DOMAIN escrows :
       \A sot \in DOMAIN tokens, oa \in Amounts, ra \in Amounts :
          LET r == CreateEscrowIx(Ledger, escrows[e].seller,
                                  escrows[e].offer_mint,
                                  escrows[e].request_mint,
                                  sot, oa, ra, "none")
          IN /\ r.err = "AlreadyExists"
             /\ Execute(Ledger, r) = Ledger

C5_Witness ==
    /\ last.op = "create" /\ last.err = "AlreadyExists"
    /\ DOMAIN escrows # {}

C7_UnderfundedAccept ==
    \A e \in DOMAIN escrows, buyer \in Keys :
    \A brt \in DOMAIN tokens :
      (/\ AcceptEscrow_buyer_request_token(Ledger, brt,
                                  escrows[e].request_mint, buyer) = "Ok"
       /\ tokens[brt].amount < escrows[e].request_amount) =>
    \A bot \in DOMAIN tokens, srt \in DOMAIN tokens :
      LET a == AcceptAccounts(e, buyer, brt, bot, srt) IN
      AcceptEscrowAccounts(Ledger, a) = "Ok" =>
        LET r == AcceptEscrowIx(Ledger, a, "none") IN
        /\ r.err = "InsufficientBalance"
        /\ Execute(Ledger, r) = Ledger

C7_Witness ==
    /\ last.op = "accept" /\ last.err = "InsufficientBalance"
    /\ \E e \in DOMAIN escrows :
          Balance(tokens, VaultPda(e)) = escrows[e].offer_amount

(* C8 as stated: every create with offer_amount = 0 or request_amount = 0  *)
(* fails with InvalidAmount.                                               *)
C8_Original ==
    \A seller \in Keys, om \in Mints, rm \in Mints, sot \in DOMAIN tokens,
       oa \in Amounts, ra \in Amounts :
      (oa = 0 \/ ra = 0) =>
        CreateEscrowIx(Ledger, seller, om, rm, sot, oa, ra, "none").err
            = "InvalidAmount"

(* C8 amended: every create with offer_amount = 0 or request_amount = 0    *)
(* fails and changes nothing; its error is InvalidAmount whenever the      *)
(* account validation passes (no record for the triple, the seller can pay *)
(* the storage, the paying holding is of the offered kind and owned by the *)
(* seller) and otherwise the validation's error; every record that exists  *)
(* has offer_amount > 0 and request_amount > 0.                            *)
C8_ZeroAmount ==
    /\ \A seller \in Keys, om \in Mints, rm \in Mints, sot \in DOMAIN tokens :
         LET v == CreateEscrowAccounts(Ledger, seller, om, rm, sot, "none") IN
         \A oa \in Amounts, ra \in Amounts :
           (oa = 0 \/ ra = 0) =>
             LET r == CreateEscrowIx(Ledger, seller, om, rm, sot, oa, ra,
                                     "none")
             IN /\ r.err = IF v.err = "Ok" THEN "InvalidAmount" ELSE v.err
                /\ Execute(Ledger, r) = Ledger
    /\ \A e \in DOMAIN escrows :
          escrows[e].offer_amount > 0 /\ escrows[e].request_amount > 0

C8_Witness == last.op = "create" /\ last.err = "InvalidAmount"

(* C9 (I3): a record exists exactly when its vault exists: the vaults are  *)
(* the token accounts at the addresses derived from the existing records,  *)
(* and a record appears or disappears only together with its vault.        *)
C9_RecordIffVault ==
    /\ [](\A e \in EscrowAddrs :
            e \in DOMAIN escrows <=> VaultPda(e) \in DOMAIN tokens)
    /\ [][\A e \in EscrowAddrs :
            /\ (e \in DOMAIN escrows' /\ e \notin DOMAIN escrows)
                 <=> (VaultPda(e) \in DOMAIN tokens'
                        /\ VaultPda(e) \notin DOMAIN tokens)
            /\ (e \notin DOMAIN escrows' /\ e \in DOMAIN escrows)
                 <=> (VaultPda(e) \notin DOMAIN tokens'
                        /\ VaultPda(e) \in DOMAIN tokens)]_vars

C9_Witness == Ok("cancel") /\ last.escrow \notin DOMAIN escrows

(* C10: an accept or cancel either succeeds on a record that exists and    *)
(* removes it together with its vault in that step, or fails and changes   *)
(* nothing; a record comes into existence only by a successful create; so  *)
(* between two creates at most one accept or cancel of a record succeeds,  *)
(* and a call against a released record fails without effect.              *)
C10_SingleRelease ==
    /\ [][last'.op \in {"accept", "cancel"} =>
            \/ /\ last'.err = "Ok"
               /\ last'.escrow \in DOMAIN escrows
               /\ last'.escrow \notin DOMAIN escrows'
               /\ VaultPda(last'.escrow) \notin DOMAIN tokens'
            \/ /\ last'.err # "Ok"
               /\ LedgerUnchanged]_vars
    /\ [][\A e \in EscrowAddrs :
            (e \notin DOMAIN escrows /\ e \in DOMAIN escrows')
               => (last'.op = "create" /\ last'.err = "Ok"
                     /\ last'.escrow = e)]_vars
    /\ [](\A e \in EscrowAddrs \ DOMAIN escrows :
          \A caller \in Keys, t \in DOMAIN tokens :
            LET a == [buyer |-> caller, seller |-> caller,
                      offer_mint |-> tokens[t].mint,
                      request_mint |-> tokens[t].mint,
                      escrow |-> e, vault |-> VaultPda(e),
                      buyer_request_token |-> t, buyer_offer_token |-> t,
                      seller_request_token |-> t]
                c == [seller |-> caller, offer_mint |-> tokens[t].mint,
                      escrow |-> e, vault |-> VaultPda(e),
                      seller_offer_token |-> t]
                ra == AcceptEscrowIx(Ledger, a, "none")
                rc == CancelEscrowIx(Ledger, c, "none")
            IN /\ ra.err = "AccountNotInitialized"
               /\ rc.err = "AccountNotInitialized"
               /\ Execute(Ledger, ra) = Ledger
               /\ Execute(Ledger, rc) = Ledger)

C10_Witness ==
    /\ Ok("accept") /\ last.signer # <<"alice">>
    /\ last.escrow \notin DOMAIN escrows
    /\ VaultPda(last.escrow) \notin DOMAIN tokens

(* The accounts a well-formed cancel of record e passes. *)
CancelAccounts(e, sot) ==
    [seller |-> escrows[e].seller, offer_mint |-> escrows[e].offer_mint,
     escrow |-> e, vault |-> VaultPda(e), seller_offer_token |-> sot]

(* The holdings of asset kind `mint` that belong to `owner`. *)
HoldingsOf(tok, owner, mint) ==
    {t \in DOMAIN tok : tok[t].owner = owner /\ tok[t].mint = mint}

(* C11: whenever a record exists, a cancel by its stored seller with one   *)
(* of the seller's own holdings of the offered kind succeeds: the holding  *)
(* grows by offer_amount and the record and its vault are gone.            *)
C11_ReclaimAvailable ==
    \A e \in DOMAIN escrows :
    \A sot \in HoldingsOf(tokens, escrows[e].seller, escrows[e].offer_mint) :
        LET r == CancelEscrowIx(Ledger, CancelAccounts(e, sot), "none") IN
        /\ r.err = "Ok"
        /\ r.st.tokens[sot].amount
              = tokens[sot].amount + escrows[e].offer_amount
        /\ e \notin DOMAIN r.st.escrows
        /\ VaultPda(e) \notin DOMAIN r.st.tokens

(* C12: whenever a record exists, an accept by any wallet that passes the  *)
(* record's accounts and a paying holding of its own with at least         *)
(* request_amount completes the trade, and no accept, whatever accounts it *)
(* passes, fails with Unauthorized.                                        *)
C12_AcceptPermissionless ==
    \A e \in DOMAIN escrows, buyer \in Keys :
      /\ \A brt \in HoldingsOf(tokens, buyer, escrows[e].request_mint) :
         \A bot \in HoldingsOf(tokens, buyer, escrows[e].offer_mint) :
         \A srt \in HoldingsOf(tokens, escrows[e].seller,
                               escrows[e].request_mint) :
            tokens[brt].amount >= escrows[e].request_amount =>
              LET a == AcceptAccounts(e, buyer, brt, bot, srt)
                  r == AcceptEscrowIx(Ledger, a, "none")
              IN /\ r.err = "Ok"
                 /\ e \notin DOMAIN r.st.escrows
      /\ \A seller \in Keys, t \in DOMAIN tokens :
            LET a == [AcceptAccounts(e, buyer, t, t, t)
                        EXCEPT !.seller = seller]
            IN AcceptEscrowIx(Ledger, a, "none").err # "Unauthorized"

RECURSIVE SumAmounts(_, _)
(* The sum of the balances of the holdings in S. *)
SumAmounts(tok, S) ==
    IF S = {} THEN 0
    ELSE LET t == CHOOSE x \in S : TRUE
         IN  tok[t].amount + SumAmounts(tok, S \ {t})

(* C13 (Scenario B): a successful create followed at once by the seller's  *)
(* cancel succeeds and restores the ledger: what the seller holds of the   *)
(* offered kind is what it held before the create, every other holding is  *)
(* unchanged, and neither the record nor its vault exists.                 *)
C13_CreateCancelRoundTrip ==
    \A seller \in Keys, om \in Mints, rm \in Mints :
    \A sot \in HoldingsOf(tokens, seller, om) :
      CreateEscrowAccounts(Ledger, seller, om, rm, sot, "none").err = "Ok" =>
    \A oa \in Amounts, ra \in Amounts :
      LET c == CreateEscrowIx(Ledger, seller, om, rm, sot, oa, ra, "none")
          e == EscrowPda(seller, om, rm)
      IN c.err = "Ok" =>
         \A sot2 \in HoldingsOf(c.st.tokens, seller, om) :
           LET a == [seller |-> seller, offer_mint |-> om, escrow |-> e,
                     vault |-> VaultPda(e), seller_offer_token |-> sot2]
               r == CancelEscrowIx(c.st, a, "none")
               mine == HoldingsOf(tokens, seller, om)
           IN /\ r.err = "Ok"
              /\ DOMAIN r.st.tokens = DOMAIN tokens
              /\ SumAmounts(r.st.tokens, mine) = SumAmounts(tokens, mine)
              /\ \A t \in DOMAIN tokens \ mine : r.st.tokens[t] = tokens[t]
              /\ r.st.escrows = escrows
              /\ e \notin DOMAIN r.st.escrows
              /\ VaultPda(e) \notin DOMAIN r.st.tokens

C13_Witness ==
    /\ Ok("cancel")
    /\ VaultPda(last.escrow) \notin DOMAIN tokens
    /\ tokens[last.to].amount >= last.offer_amount
    /\ last.offer_amount > 1

(* C14: a record that exists before and after a step is the same before   *)
(* and after: seller, offer_mint, request_mint, offer_amount,              *)
(* request_amount and both bumps never change between the create that      *)
(* wrote them and the release of the record, whatever instruction runs,    *)
(* failed accepts, cancels and creates on the same triple included.        *)
C14_RecordImmutable ==
    [][\A e \in DOMAIN escrows :
          e \in DOMAIN escrows' => escrows'[e] = escrows[e]]_vars

C14_Witness ==
    /\ last.op = "accept" /\ last.err = "InvalidTokenAccountOwner"
    /\ \E e \in DOMAIN escrows :
          /\ escrows[e].offer_amount > 0
          /\ escrows[e].escrow_bump = EscrowBump

(* An accept of record e that names the stored seller and passes holdings  *)
(* owned by the right parties differs from the record in an asset kind or  *)
(* in the vault address.                                                   *)
AssetMismatch(e, a) ==
    \/ a.offer_mint # escrows[e].offer_mint
    \/ a.request_mint # escrows[e].request_mint
    \/ a.vault # VaultPda(e)
    \/ tokens[a.buyer_request_token].mint # escrows[e].request_mint
    \/ tokens[a.buyer_offer_token].mint # escrows[e].offer_mint
    \/ tokens[a.seller_request_token].mint # escrows[e].request_mint

(* C15 as stated: an accept of an existing record whose offer mint,        *)
(* request mint, vault address or a holding's mint differs from the        *)
(* record's fails with InvalidMint and changes nothing (the seller account *)
(* and the owners of the holdings being the right ones).                   *)
C15_Original ==
    \A e \in DOMAIN escrows, buyer \in Keys :
    \A om \in Mints, rm \in Mints, vault \in DOMAIN tokens :
    \A brt \in {t \in DOMAIN tokens : tokens[t].owner = buyer} :
    \A bot \in {t \in DOMAIN tokens : tokens[t].owner = buyer} :
    \A srt \in {t \in DOMAIN tokens : tokens[t].owner = escrows[e].seller} :
        LET a == [AcceptAccounts(e, buyer, brt, bot, srt) EXCEPT
                    !.offer_mint = om, !.request_mint = rm, !.vault = vault]
            r == AcceptEscrowIx(Ledger, a, "none")
        IN AssetMismatch(e, a) =>
              /\ r.err = "InvalidMint"
              /\ Execute(Ledger, r) = Ledger

(* C15 amended: such an accept fails and changes nothing; the error is     *)
(* InvalidMint when the supplied offer or request mint differs from the    *)
(* record's, otherwise ConstraintSeeds when the supplied vault is not the  *)
(* address derived from the record, otherwise (only a holding is of the    *)
(* wrong kind) InvalidMint.                                                *)
C15_AssetMismatch ==
    \A e \in DOMAIN escrows, buyer \in Keys :
    \A om \in Mints, rm \in Mints, vault \in DOMAIN tokens :
    \A brt \in {t \in DOMAIN tokens : tokens[t].owner = buyer} :
    \A bot \in {t \in DOMAIN tokens : tokens[t].owner = buyer} :
    \A srt \in {t \in DOMAIN tokens : tokens[t].owner = escrows[e].seller} :
        LET a == [AcceptAccounts(e, buyer, brt, bot, srt) EXCEPT
                    !.offer_mint = om, !.request_mint = rm, !.vault = vault]
            r == AcceptEscrowIx(Ledger, a, "none")
        IN AssetMismatch(e, a) =>
              /\ r.err = IF om # escrows[e].offer_mint
                            \/ rm # escrows[e].request_mint
                         THEN "InvalidMint"
                         ELSE IF vault # VaultPda(e)
                         THEN "ConstraintSeeds"
                         ELSE "InvalidMint"
              /\ Execute(Ledger, r) = Ledger

C15_Witness ==
    /\ last.op = "accept" /\ last.err = "ConstraintSeeds"
    /\ DOMAIN escrows # {}

(* C16: in every accept that passes account validation, whatever step     *)
(* fails, the first call made is the transfer of request_amount from the   *)
(* buyer's holding to the seller's; the transfer out of the vault is made  *)
(* only after that transfer has succeeded, and it is the transfer of       *)
(* offer_amount to the buyer; the vault is closed only after the transfer  *)
(* out of it has succeeded; a successful accept has made all three.        *)
C16_AcceptOrder ==
    \A e \in DOMAIN escrows, buyer \in Keys :
    \A brt \in HoldingsOf(tokens, buyer, escrows[e].request_mint) :
    \A bot \in HoldingsOf(tokens, buyer, escrows[e].offer_mint) :
    \A srt \in HoldingsOf(tokens, escrows[e].seller, escrows[e].request_mint) :
    \A inject \in AcceptInject :
      LET a == AcceptAccounts(e, buyer, brt, bot, srt)
          r == accept_escrow(Ledger, a, inject)
          pay == TransferCall(brt, srt, escrows[e].request_amount, "Ok")
          release == TransferCall(VaultPda(e), bot,
                                  escrows[e].offer_amount, "Ok")
      IN /\ Len(r.cpi) >= 1
         /\ r.cpi[1].call = "transfer" /\ r.cpi[1].from = brt
         /\ r.cpi[1].to = srt
         /\ r.cpi[1].amount = escrows[e].request_amount
         /\ \A i \in 1..Len(r.cpi) :
              /\ r.cpi[i].from = VaultPda(e) =>
                    \E j \in 1..(i - 1) : r.cpi[j] = pay
              /\ r.cpi[i].call = "close_account" =>
                    \E j \in 1..(i - 1) : r.cpi[j] = release
              /\ (r.cpi[i].call = "transfer" /\ r.cpi[i].from = VaultPda(e))
                    => (r.cpi[i].to = bot
                          /\ r.cpi[i].amount = escrows[e].offer_amount)
         /\ r.err = "Ok" => Len(r.cpi) = 3

C16_Witness ==
    /\ last.op = "accept" /\ last.err = "InsufficientBalance"
    /\ \E e \in DOMAIN escrows, buyer \in Keys :
       \E brt \in HoldingsOf(tokens, buyer, escrows[e].request_mint) :
       \E bot \in HoldingsOf(tokens, buyer, escrows[e].offer_mint) :
       \E srt \in HoldingsOf(tokens, escrows[e].seller,
                             escrows[e].request_mint) :
          LET a == AcceptAccounts(e, buyer, brt, bot, srt)
          IN Len(accept_escrow(Ledger, a, "none").cpi) = 1

(* C17: the balance of the vault of an existing record decreases only in  *)
(* the step of a successful accept or cancel of that record; no create, no *)
(* instruction on another record and no token transfer signed by a wallet  *)
(* decreases it, and every transfer out of a vault signed by a wallet      *)
(* fails.                                                                  *)
C17_CustodyDebit ==
    /\ [][\A e \in DOMAIN escrows :
            Balance(tokens', VaultPda(e)) < Balance(tokens, VaultPda(e)) =>
              /\ last'.op \in {"accept", "cancel"}
              /\ last'.err = "Ok"
              /\ last'.escrow = e]_vars
    /\ [](\A e \in DOMAIN escrows :
          \A signer \in Keys, to \in DOMAIN tokens, amount \in 1..MaxTransfer :
            Transfer(Ledger, VaultPda(e), to, signer, {signer}, amount,
                     FALSE).err # "Ok")

C17_Witness ==
    /\ Ok("cancel")
    /\ Cardinality(DOMAIN escrows) = 1
    /\ \E e \in DOMAIN escrows :
          /\ e # last.escrow
          /\ tokens[VaultPda(e)].amount = escrows[e].offer_amount

(* C18: a successful accept or cancel credits the storage cost of the      *)
(* vault and of the record to the record's stored seller and changes no    *)
(* other wallet's lamports, whoever the buyer is; a successful create      *)
(* charges exactly that cost to the seller; nothing else changes lamports. *)
(* So after a create and the accept or cancel of its record the seller has *)
(* what it had before the create, and a buyer other than the seller what   *)
(* it had.                                                                 *)
C18_StorageCostToSeller ==
    /\ [][(last'.op \in {"accept", "cancel"} /\ last'.err = "Ok") =>
            lamports' = [lamports EXCEPT ![escrows[last'.escrow].seller] =
                                            @ + RentEscrow + RentVault]]_vars
    /\ [][(last'.op = "create" /\ last'.err = "Ok") =>
            lamports' = [lamports EXCEPT ![last'.signer] =
                                            @ - (RentEscrow + RentVault)]]_vars
    /\ [][lamports' # lamports =>
            (last'.op \in {"create", "accept", "cancel"}
               /\ last'.err = "Ok")]_vars

C18_Witness ==
    /\ Ok("accept")
    /\ last.signer = <<"bob">>
    /\ lamports[<<"alice">>] = InitLamports
    /\ lamports[<<"bob">>] = BuyerLamports

(* The units of asset kind `mint` in all holdings, vaults included. *)
Supply(tok, mint) ==
    SumAmounts(tok, {t \in DOMAIN tok : tok[t].mint = mint})

(* C19: no step changes, for any asset kind, the sum of the balances of    *)
(* all holdings of that kind, the vaults included; a token account that a  *)
(* step closes was empty when it was closed or emptied by that step.       *)
C19_AssetConservation ==
    [][\A m \in Mints : Supply(tokens', m) = Supply(tokens, m)]_vars

C19_Witness ==
    /\ Ok("accept")
    /\ DOMAIN tokens = UserTokens
    /\ Supply(tokens, <<"X">>) + Supply(tokens, <<"Y">>) = 2 * InitBal + 1
    /\ tokens[TokAddr(<<"bob">>, <<"X">>, "1")].amount > 0

(* In the current state every create for the triple with positive amounts  *)
(* by a seller that can pay the storage and holds offer_amount succeeds    *)
(* and yields a record with exactly the new terms and a vault holding      *)
(* exactly the new offer_amount.                                           *)
CreateSucceeds(seller, om, rm) ==
    \A sot \in HoldingsOf(tokens, seller, om) :
    \A oa \in 1..MaxAmount, ra \in 1..MaxAmount :
      (/\ lamports[seller] >= RentEscrow + RentVault
       /\ tokens[sot].amount >= oa) =>
        LET e == EscrowPda(seller, om, rm)
            r == CreateEscrowIx(Ledger, seller, om, rm, sot, oa, ra, "none")
        IN /\ r.err = "Ok"
           /\ r.st.escrows[e] =
                [seller |-> seller, offer_mint |-> om, request_mint |-> rm,
                 offer_amount |-> oa, request_amount |-> ra,
                 escrow_bump |-> EscrowBump, vault_bump |-> VaultBump]
           /\ r.st.tokens[VaultPda(e)] =
                [mint |-> om, owner |-> e, amount |-> oa]

(* C20: right after a successful accept or cancel of a record, and in any  *)
(* later state in which the triple has no record, a create for the same    *)
(* triple with positive amounts by a funded seller succeeds, and the new   *)
(* record and vault carry the new amounts only.                            *)
C20_ReCreation ==
    /\ (Ok("accept") \/ Ok("cancel")) =>
          CreateSucceeds(<<last.escrow[2]>>, <<last.escrow[3]>>,
                         <<last.escrow[4]>>)
    /\ \A seller \in Keys, om \in Mints, rm \in Mints :
          EscrowPda(seller, om, rm) \notin DOMAIN escrows =>
              CreateSucceeds(seller, om, rm)

C20_Witness ==
    /\ Ok("cancel")
    /\ \E oa \in 1..MaxAmount :
          /\ oa # last.offer_amount
          /\ CreateEscrowIx(Ledger, <<last.escrow[2]>>, <<last.escrow[3]>>,
                            <<last.escrow[4]>>, last.to, oa,
                            last.request_amount, "none").err = "Ok"

====
